---- MODULE Spec2Model ----
(***************************************************************************)
(* A model of betamax: the interception adapter (adapter.py), the session  *)
(* controller (recorder.py), the validated options (options.py) and the    *)
(* global configuration (configure.py).  The Cassette class lives in       *)
(* betamax/cassette, which is outside the available sources; the operators *)
(* that stand for it follow the written specification of the cassette.     *)
(*                                                                         *)
(* Python values: an optional value (x or None) is the sequence <<x>> or   *)
(* <<>>; a dict is a function whose DOMAIN is its key set; a str that the   *)
(* code scans (URL, body, header value) is a sequence of tokens.  A keyword *)
(* argument of use_cassette, which the caller may give any shape, carries   *)
(* its Python type with its value until Options.validate has accepted it.   *)
(***************************************************************************)
EXTENDS Integers, Sequences, FiniteSets, TLC

(* ------------------------------ bounds -------------------------------- *)

\* Wall-clock days run from 0 to MaxTime.
MaxTime == 2

\* Total number of live transport calls in one behaviour.
MaxCalls == 2

(* ------------------------------ values -------------------------------- *)

None == <<>>

Some(x) == <<x>>

\* dict.update(other): the keys of other win.
Update(d, other) ==
    [k \in (DOMAIN d) \cup (DOMAIN other) |->
        IF k \in DOMAIN other THEN other[k] ELSE d[k]]

\* dict.get(key) with None as the default.
Get(d, key) == IF key \in DOMAIN d THEN Some(d[key]) ELSE None

\* The empty dict.
EmptyDict == [k \in {} |-> 0]

RecordModes == {"all", "new_episodes", "none", "once"}

\* URLs, token by token: "http://x" and "https://x".
UrlHttp == <<"http", "://", "x">>

UrlHttps == <<"http", "s", "://", "x">>

Requests ==
    { [method |-> "GET", url |-> UrlHttp],
      [method |-> "GET", url |-> UrlHttps] }

\* The one placeholder the model configures: token "T" stands for literal "s".
Placeholder == [placeholder |-> <<"T">>, replace |-> <<"s">>]

\* What the real transport may answer.  The second one carries the token
\* itself in live content, the overlapping case of redaction.
LiveResponses ==
    { [status |-> 200, headers |-> <<"s">>, body |-> <<"s", "o">>],
      [status |-> 404, headers |-> <<"o">>, body |-> <<"T">>] }

\* The serializer every cassette of the model uses.
Json == "json"

\* A keyword argument as the caller hands it over: a Python object of some
\* type.  The types drawn are str, int, bool, NoneType, timedelta, a list of
\* str and a list of dict.
Py(type, value) == [type |-> type, value |-> value]

PyStr(s) == Py("str", s)

PyInt(n) == Py("int", n)

PyNone == Py("NoneType", <<>>)

\* A list of str, such as a matcher list.
PyNames(names) == Py("list[str]", names)

\* A list of dict, such as a placeholder list.
PyDicts(dicts) == Py("list[dict]", dicts)

\* datetime.timedelta(days)
PyTimedelta(days) == Py("timedelta", days)

\* The types a for loop can iterate; a str yields its characters.
Iterable == {"str", "list[str]", "list[dict]"}

(* ---------------------------- text helpers ----------------------------- *)

\* str.startswith(prefix).
StartsWith(s, prefix) ==
    /\ Len(prefix) <= Len(s)
    /\ SubSeq(s, 1, Len(prefix)) = prefix

\* str.lower(), token by token: the model's tokens are all lower case but "T".
LowerToken(t) == IF t = "T" THEN "t" ELSE t

Lower(s) == [i \in 1..Len(s) |-> LowerToken(s[i])]

\* str.replace(old, new): every non-overlapping occurrence, left to right.
RECURSIVE ReplaceAll(_, _, _)
ReplaceAll(s, old, new) ==
    IF s = <<>> \/ old = <<>> THEN s
    ELSE IF StartsWith(s, old)
         THEN new \o ReplaceAll(SubSeq(s, Len(old) + 1, Len(s)), old, new)
         ELSE <<Head(s)>> \o ReplaceAll(Tail(s), old, new)

(* ------------------------------ options.py ---------------------------- *)

\* Names registered in betamax.matchers.matcher_registry.
matcher_registry == {"method", "uri", "headers", "body"}

\* Names registered in betamax.serializers.serializer_registry.
serializer_registry == {Json}

\* record in ['all', 'new_episodes', 'none', 'once']
validate_record(record) == record.type = "str" /\ record.value \in RecordModes

\* all(m in available_matchers for m in matchers); the items of anything
\* but a list of str, the characters of a str included, are no matcher names
\* unless they are the names themselves.
validate_matchers(matchers) ==
    \A i \in 1..Len(matchers.value) :
        /\ matchers.type \in {"str", "list[str]"}
        /\ matchers.value[i] \in matcher_registry

\* serializer in list(serializer_registry.keys())
validate_serializer(serializer) ==
    serializer.type = "str" /\ serializer.value \in serializer_registry

\* all(sorted(list(p.keys())) == keys for p in placeholders)
validate_placeholders(placeholders) ==
    \A i \in 1..Len(placeholders.value) :
        DOMAIN placeholders.value[i] = {"placeholder", "replace"}

\* lambda x: x is None or x > 0
validate_re_record_interval(x) ==
    x.type = "NoneType" \/ (x.type = "int" /\ x.value > 0)

\* lambda x: x in [True, False]; 1 == True and 0 == False in Python.
validate_preserve_exact_body_bytes(x) ==
    \/ x.type = "bool"
    \/ x.type = "int" /\ x.value \in {0, 1}

\* The exception valid_options[key](value) ends with, None when it returns:
\* iterating what cannot be iterated is a TypeError (lines 11 and 22-24),
\* p.keys() on an item that is no mapping an AttributeError (line 23), and
\* ordering a timedelta against 0 a TypeError (line 42).
raised(key, value) ==
    CASE key \in {"match_requests_on", "placeholders"}
            /\ value.type \notin Iterable -> Some("TypeError")
      [] key = "placeholders" /\ value.type \in {"str", "list[str]"}
            /\ value.value # <<>> -> Some("AttributeError")
      [] key = "re_record_interval" /\ value.type = "timedelta" ->
            Some("TypeError")
      [] OTHER -> None

\* Options.valid_options: the registry of recognized keys.
valid_options ==
    {"match_requests_on", "re_record_interval", "record", "serialize",
     "serialize_with", "preserve_exact_body_bytes", "placeholders"}

\* Options.valid_options[key](value)
is_valid(key, value) ==
    CASE key = "match_requests_on" -> validate_matchers(value)
      [] key = "re_record_interval" -> validate_re_record_interval(value)
      [] key = "record" -> validate_record(value)
      [] key = "serialize" -> validate_serializer(value)
      [] key = "serialize_with" -> validate_serializer(value)
      [] key = "preserve_exact_body_bytes" ->
            validate_preserve_exact_body_bytes(value)
      [] key = "placeholders" -> validate_placeholders(value)

\* The value of an accepted entry as the rest of the model writes it: an
\* interval is optional, everything else is the value itself.
Accepted(key, value) ==
    IF key = "re_record_interval"
    THEN IF value.type = "NoneType" THEN None ELSE Some(value.value)
    ELSE value.value

\* Options.validate, lines 88-94: the exceptions it can end with.  The loop
\* stops at the first entry whose validator raises, and the order of the
\* entries of **kwargs is the dict's.
validate_raises(data) ==
    {raised(k, data[k])[1] :
        k \in {j \in DOMAIN data \cap valid_options : raised(j, data[j]) # None}}

\* Options.validate without lines 91-94: only unknown keys are dropped.
validate_known_keys(data) ==
    [k \in DOMAIN data \cap valid_options |-> Accepted(k, data[k])]

\* Options.validate: drop unknown keys and keys whose value is invalid.
validate(data) ==
    LET kept == {k \in DOMAIN data :
                    k \in valid_options /\ is_valid(k, data[k])}
    IN  [k \in kept |-> Accepted(k, data[k])]

\* Options.defaults, the static table.
StaticDefaults ==
    [k \in valid_options |->
        CASE k = "match_requests_on" -> <<"method", "uri">>
          [] k = "re_record_interval" -> None
          [] k = "record" -> "once"
          [] k = "serialize" -> None
          [] k = "serialize_with" -> Json
          [] k = "preserve_exact_body_bytes" -> FALSE
          [] k = "placeholders" -> <<>>]

\* translate_cassette_options: the global defaults with record_mode renamed.
translate_cassette_options(dco) ==
    LET keys == {IF k = "record_mode" THEN "record" ELSE k : k \in DOMAIN dco}
    IN  [k \in keys |-> IF k = "record" THEN dco["record_mode"] ELSE dco[k]]

\* Options.__init__: self.defaults.
OptionsDefaults(dco) == Update(StaticDefaults, translate_cassette_options(dco))

\* Options.__getitem__: self.data.get(key, self.defaults.get(key)).
OptionsGetItem(data, dco, key) ==
    IF key \in DOMAIN data THEN Some(data[key])
    ELSE Get(OptionsDefaults(dco), key)

(* ------------------- betamax.cassette (from the spec) ------------------ *)

\* Cassette.default_cassette_options before anybody edits it.
InitialDefaultCassetteOptions ==
    [k \in {"match_requests_on", "placeholders", "re_record_interval",
            "record_mode", "preserve_exact_body_bytes"} |->
        CASE k = "match_requests_on" -> <<"method", "uri">>
          [] k = "placeholders" -> <<>>
          [] k = "re_record_interval" -> None
          [] k = "record_mode" -> "once"
          [] k = "preserve_exact_body_bytes" -> FALSE]

\* The file of a cassette: library directory, name, serializer extension.
storage_path(library_dir, name, serialize) == <<library_dir, name, serialize>>

\* Cassette.can_be_loaded: a usable name, and a file to replay or a mode
\* that may create one.
can_be_loaded(files, library_dir, name, serialize, record_mode) ==
    /\ name # ""
    /\ \/ storage_path(library_dir, name, serialize) \in DOMAIN files
       \/ record_mode # "none"

\* Cassette(...): the file's interactions when it exists; had_content is the
\* load-time answer to "does the cassette already have content".
Cassette(disk, name, serialize, placeholders, mode, preserve, dir, dco) ==
    LET path == storage_path(dir, name, serialize)
        stored == IF path \in DOMAIN disk THEN disk[path] ELSE <<>>
    IN  [cassette_name |-> path,
         interactions |-> stored,
         record_mode |->
            IF mode # None THEN mode[1] ELSE dco["record_mode"],
         match_options |-> dco["match_requests_on"],
         placeholders |->
            IF placeholders # <<>> THEN placeholders ELSE dco["placeholders"],
         preserve_exact_body_bytes |->
            IF preserve # None THEN preserve[1]
            ELSE dco["preserve_exact_body_bytes"],
         had_content |-> stored # <<>>,
         dirty |-> FALSE]

\* One named matcher on (live request, recorded request).  The model's
\* requests carry neither headers nor a body, so those two always agree.
matcher(name, request, recorded) ==
    CASE name = "method" -> request.method = recorded.method
      [] name = "uri" -> request.url = recorded.url
      [] OTHER -> TRUE

\* An interaction matches iff every configured matcher says so.
Matches(c, request, i) ==
    \A m \in 1..Len(c.match_options) :
        matcher(c.match_options[m], request, c.interactions[i].request)

\* Cassette.find_match: the position of the first match in storage order;
\* a cassette in mode all never offers a stored interaction for replay.
find_match(c, request) ==
    LET hits == {i \in 1..Len(c.interactions) : Matches(c, request, i)}
    IN  IF c.record_mode = "all" \/ hits = {} THEN None
        ELSE Some(CHOOSE i \in hits : \A j \in hits : i <= j)

\* Cassette.is_recording: the record-mode policy.
is_recording(c) ==
    CASE c.record_mode = "none" -> FALSE
      [] c.record_mode = "once" -> ~c.had_content
      [] OTHER -> TRUE

\* Redaction on save: literal -> token, in declaration order.
RECURSIVE Redact(_, _)
Redact(text, placeholders) ==
    IF placeholders = <<>> THEN text
    ELSE Redact(ReplaceAll(text, Head(placeholders).replace,
                           Head(placeholders).placeholder),
                Tail(placeholders))

\* Reverse substitution on replay: token -> literal, in declaration order.
RECURSIVE Unredact(_, _)
Unredact(text, placeholders) ==
    IF placeholders = <<>> THEN text
    ELSE Unredact(ReplaceAll(text, Head(placeholders).placeholder,
                             Head(placeholders).replace),
                  Tail(placeholders))

\* save_interaction putting the new interaction first instead of last.
save_interaction_first(c, response, request, today) ==
    [c EXCEPT !.interactions =
                <<[request |-> request, response |-> response,
                   recorded_at |-> today]>> \o @,
              !.dirty = TRUE]

\* Cassette.save_interaction: redact, append as the last element.
save_interaction(c, response, request, today) ==
    LET interaction ==
            [request |-> request,
             response |->
                [status |-> response.status,
                 headers |-> Redact(response.headers, c.placeholders),
                 body |-> Redact(response.body, c.placeholders)],
             recorded_at |-> today]
    IN  [c EXCEPT !.interactions = Append(@, interaction), !.dirty = TRUE]

\* Interaction.as_response: the stored response after reverse substitution.
as_response(c, interaction) ==
    [status |-> interaction.response.status,
     headers |-> Unredact(interaction.response.headers, c.placeholders),
     body |-> Unredact(interaction.response.body, c.placeholders)]

\* now - Cassette.earliest_recorded_date, in days, for an empty cassette:
\* the "infinitely old" sentinel, older than any interval one configures
\* and younger than timedelta.max.
SentinelAge == 500

\* now - Cassette.earliest_recorded_date, in days.
Age(c, today) ==
    IF c.interactions = <<>> THEN SentinelAge
    ELSE LET dates == {c.interactions[i].recorded_at :
                            i \in 1..Len(c.interactions)}
         IN  today - (CHOOSE d \in dates : \A e \in dates : d <= e)

\* Cassette.clear: drop every interaction.
clear(c) == [c EXCEPT !.interactions = <<>>, !.dirty = TRUE]

\* Cassette.eject: flush to the file if anything changed.
eject(c, files) ==
    IF c.dirty
    THEN Update(files, [p \in {c.cassette_name} |-> c.interactions])
    ELSE files

(* ------------------------------- state --------------------------------- *)

VARIABLES
    files,                     \* the cassette files on disk: path -> interactions
    now,                       \* the wall clock, in days
    default_cassette_options,  \* Cassette.default_cassette_options (global)
    session_adapters,          \* session.adapters: ordered (prefix, adapter)
    http_adapters,             \* Betamax.http_adapters = adapter.old_adapters
    cassette,                  \* BetamaxAdapter.cassette (None or a cassette)
    cassette_name,             \* BetamaxAdapter.cassette_name
    options,                   \* BetamaxAdapter.options
    calls,                     \* live transport calls made so far
    last                       \* what the last operation did and returned

vars ==
    <<files, now, default_cassette_options, session_adapters, http_adapters,
      cassette, cassette_name, options, calls, last>>

\* Configuration.CASSETTE_LIBRARY_DIR
CASSETTE_LIBRARY_DIR == "vcr/cassettes"

\* timedelta.max, in days
TimedeltaMax == 999999999

BetamaxAdapterId == "BetamaxAdapter"

\* The observation an operation leaves: its name, how it ended, the request
\* it was given, the response it returned, the position of the interaction
\* the response was built from, the original adapters it called, the live
\* response it obtained, the diagnostic of an unhandled request, and the
\* keyword arguments and cassette name it was given.
Obs(op, outcome, request, response, index, called, live, message) ==
    [op |-> op, outcome |-> outcome, request |-> request,
     response |-> response, index |-> index, called |-> called,
     live |-> live, message |-> message, given |-> EmptyDict, name |-> None]

Did(op, outcome) == Obs(op, outcome, None, None, 0, <<>>, None, None)

Given(op, outcome, kwargs) == [Did(op, outcome) EXCEPT !.given = kwargs]

\* What use_cassette(name, **kwargs) leaves.
Used(name, outcome, kwargs) ==
    [Given("use_cassette", outcome, kwargs) EXCEPT !.name = Some(name)]

NoCassetteError == "BetamaxError: No cassette was specified or found."

UnhandledError == "BetamaxError: A request was made that could not be handled."

(* ------------------------------ adapter.py ---------------------------- *)

\* BetamaxAdapter.find_adapter: the first old adapter, in the dict's order,
\* whose prefix starts the lower-cased URL; None when the loop falls through.
find_adapter(old_adapters, url) ==
    LET hits == {i \in 1..Len(old_adapters) :
                    StartsWith(Lower(url), old_adapters[i].prefix)}
    IN  IF hits = {} THEN None
        ELSE Some(old_adapters[CHOOSE i \in hits : \A j \in hits : i <= j].adapter)

\* unhandled_request_message naming the cassette without its directory.
unhandled_request_message_bare(request, c) ==
    [url |-> request.url,
     cassette_file_path |->
        storage_path("", c.cassette_name[2], c.cassette_name[3]),
     cassette_record_mode |-> c.record_mode,
     cassette_match_options |-> c.match_options]

\* unhandled_request_message: the four values the message is formatted from.
unhandled_request_message(request, c) ==
    [url |-> request.url,
     cassette_file_path |-> c.cassette_name,
     cassette_record_mode |-> c.record_mode,
     cassette_match_options |-> c.match_options]

\* Lines 95-96 scanning the interactions itself, whatever the mode.
LookupAnyMode(c, request) ==
    LET hits == {i \in 1..Len(c.interactions) : Matches(c, request, i)}
    IN  IF hits = {} THEN None
        ELSE Some(CHOOSE i \in hits : \A j \in hits : i <= j)

\* Lines 95-96 testing the file's content at load instead of the list.
LookupIfLoaded(c, request) ==
    IF c.had_content THEN find_match(c, request) ELSE None

\* send, lines 95-96: look up only in a cassette that has interactions.
Lookup(c, request) ==
    IF c.interactions # <<>> THEN find_match(c, request) ELSE None

\* Line 98 without "not interaction": record whenever recording is allowed.
ShouldRecordAlways(c, found) == is_recording(c)

\* Line 98 recording only while the cassette is still empty.
ShouldRecordIfEmpty(c, found) ==
    found = None /\ is_recording(c) /\ c.interactions = <<>>

\* Line 98 without is_recording(): record on every miss.
ShouldRecordOnMiss(c, found) == found = None

\* send, line 98: record on a miss when the cassette is recording.
ShouldRecord(c, found) == found = None /\ is_recording(c)

\* load_cassette, lines 78-80: the interval in effect, in days.
ReRecordInterval(opts) ==
    LET v == Get(opts, "re_record_interval")
    IN  IF v # None /\ v[1] # None THEN v[1][1] ELSE TimedeltaMax

\* load_cassette, lines 82-83: is the cassette older than the interval.
IsStale(opts, c, today) == ReRecordInterval(opts) < Age(c, today)

\* Line 54 never reading the option: no placeholders reach the cassette.
PlaceholdersIgnored(opts) == <<>>

\* load_cassette, line 54: self.options.get('placeholders', []).
PlaceholdersOption(opts) ==
    IF "placeholders" \in DOMAIN opts THEN opts["placeholders"] ELSE <<>>

\* Lines 58-60 never reading the option: the default matchers always.
MatchRequestsOnDefault(opts, dco) == dco["match_requests_on"]

\* load_cassette, lines 58-60: the matcher list given to the cassette.
MatchRequestsOn(opts, dco) ==
    IF "match_requests_on" \in DOMAIN opts
    THEN opts["match_requests_on"]
    ELSE dco["match_requests_on"]

\* load_cassette, lines 53-84: the cassette built from the merged options.
LoadedCassette(opts, name, serialize, dco, today) ==
    LET placeholders == PlaceholdersOption(opts)
        match_requests_on == MatchRequestsOn(opts, dco)
        built ==
            Cassette(files, name, serialize, placeholders,
                     Get(opts, "record"),
                     Get(opts, "preserve_exact_body_bytes"),
                     opts["cassette_library_dir"], dco)
        c == [built EXCEPT
                !.record_mode =
                    IF "record" \in DOMAIN opts THEN opts["record"] ELSE @,
                !.match_options = match_requests_on]
    IN  IF IsStale(opts, c, today) THEN clear(c) ELSE c

\* BetamaxAdapter.load_cassette; kwargs is what use_cassette was given.
load_cassette(name, serialize, opts, kwargs) ==
    LET merged == Update(options, opts)
        c == LoadedCassette(merged, name, serialize,
                            default_cassette_options, now)
    IN  /\ cassette_name' = Some(name)
        /\ options' = merged
        /\ cassette' = Some(c)
        /\ last' = Used(name,
                        IF c.dirty THEN "loaded and cleared" ELSE "loaded",
                        kwargs)

\* Line 123 returning interactions[0] instead of interactions[-1].
ReturnedFirst(saved) == 1

\* send_and_record, line 123: the position of the interaction it returns,
\* self.cassette.interactions[-1].
Returned(saved) == Len(saved.interactions)

\* BetamaxAdapter.send_and_record
send_and_record(c, request) ==
    LET adapter == find_adapter(http_adapters, request.url)
    IN  IF adapter = None
        THEN /\ last' = Obs("send", "AttributeError", Some(request), None, 0,
                            <<>>, None, None)
             /\ UNCHANGED <<cassette, calls>>
        ELSE \E response \in LiveResponses :
                LET saved == save_interaction(c, response, request, now)
                    index == Returned(saved)
                IN  /\ cassette' = Some(saved)
                    /\ calls' = calls + 1
                    /\ last' = Obs("send", "recorded", Some(request),
                                   Some(as_response(saved,
                                                    saved.interactions[index])),
                                   index, <<adapter[1]>>, Some(response), None)

\* BetamaxAdapter.send
send(request) ==
    /\ IF cassette = None
       THEN /\ last' = Obs("send", NoCassetteError, Some(request), None, 0,
                           <<>>, None, None)
            /\ UNCHANGED <<cassette, calls>>
       ELSE LET c == cassette[1]
                found == Lookup(c, request)
            IN  IF ShouldRecord(c, found)
                THEN /\ calls < MaxCalls
                     /\ send_and_record(c, request)
                ELSE IF found = None
                THEN /\ last' = Obs("send", UnhandledError, Some(request),
                                    None, 0, <<>>, None,
                                    Some(unhandled_request_message(request, c)))
                     /\ UNCHANGED <<cassette, calls>>
                ELSE /\ last' = Obs("send", "replayed", Some(request),
                                    Some(as_response(c, c.interactions[found[1]])),
                                    found[1], <<>>, None, None)
                     /\ UNCHANGED <<cassette, calls>>
    /\ UNCHANGED <<files, now, default_cassette_options, session_adapters,
                   http_adapters, cassette_name, options>>

\* eject_cassette without lines 46-47: the cassette is dropped unflushed.
eject_cassette_unflushed == files

\* BetamaxAdapter.eject_cassette, lines 46-47: the files afterwards.
eject_cassette ==
    IF cassette # None THEN eject(cassette[1], files) ELSE files

\* eject_cassette without line 48: the cassette stays on the adapter.
EjectedKept == cassette

\* BetamaxAdapter.eject_cassette, line 48: self.cassette afterwards.
Ejected == None

(* ------------------------------ recorder.py --------------------------- *)

\* session.mount(prefix, adapter): set the entry, then move every shorter
\* prefix behind it, as requests keeps its adapters.
Mount(adapters, prefix, adapter) ==
    LET at == {i \in 1..Len(adapters) : adapters[i].prefix = prefix}
        set == IF at = {}
               THEN Append(adapters, [prefix |-> prefix, adapter |-> adapter])
               ELSE [i \in 1..Len(adapters) |->
                        IF i \in at
                        THEN [prefix |-> prefix, adapter |-> adapter]
                        ELSE adapters[i]]
        Stays(e) == Len(e.prefix) >= Len(prefix)
        Moves(e) == Len(e.prefix) < Len(prefix)
    IN  SelectSeq(set, Stays) \o SelectSeq(set, Moves)

\* start, lines 138-139: mount the Betamax adapter on every kept prefix.
RECURSIVE MountBetamax(_, _)
MountBetamax(adapters, kept) ==
    IF kept = <<>> THEN adapters
    ELSE MountBetamax(Mount(adapters, Head(kept).prefix, BetamaxAdapterId),
                      Tail(kept))

\* stop without lines 149-150: the Betamax adapter stays mounted.
MountOriginalsSkipped(adapters, kept) == adapters

\* stop, lines 149-150: mount every kept original adapter again.
RECURSIVE MountOriginals(_, _)
MountOriginals(adapters, kept) ==
    IF kept = <<>> THEN adapters
    ELSE MountOriginals(Mount(adapters, Head(kept).prefix, Head(kept).adapter),
                        Tail(kept))

\* A requests.Session as it is created: https:// and http:// adapters.
FreshSessionAdapters ==
    << [prefix |-> <<"http", "s", "://">>, adapter |-> "HTTPAdapter(https)"],
       [prefix |-> <<"http", "://">>, adapter |-> "HTTPAdapter(http)"] >>

\* Is the Betamax adapter mounted anywhere on the session.
Intercepting ==
    \E i \in 1..Len(session_adapters) :
        session_adapters[i].adapter = BetamaxAdapterId

\* Betamax.__init__ of a further Betamax object on the same session, made
\* once the session carries its original adapters again.
BetamaxInit(argument) ==
    /\ ~Intercepting
    /\ http_adapters' = session_adapters
    /\ cassette' = None
    /\ cassette_name' = None
    /\ options' = EmptyDict
    /\ default_cassette_options' = Update(default_cassette_options, argument)
    /\ last' = Did("__init__", "ok")
    /\ UNCHANGED <<files, now, session_adapters, calls>>

\* Betamax.start
start ==
    /\ session_adapters' = MountBetamax(session_adapters, http_adapters)
    /\ last' = Did("start", "ok")
    /\ UNCHANGED <<files, now, default_cassette_options, http_adapters,
                   cassette, cassette_name, options, calls>>

\* Betamax.stop
stop ==
    /\ files' = eject_cassette
    /\ cassette' = Ejected
    /\ session_adapters' = MountOriginals(session_adapters, http_adapters)
    /\ last' = Did("stop", "ok")
    /\ UNCHANGED <<now, default_cassette_options, http_adapters,
                   cassette_name, options, calls>>

\* The cassette names given to use_cassette; "" is no name at all.
CassetteNames == {"a", ""}

\* use_cassette, line 165: kwargs['serialize'] or kwargs['serialize_with'].
Serializer(data, dco) ==
    LET s == OptionsGetItem(data, dco, "serialize")
    IN  IF s # None /\ s[1] # None THEN s[1]
        ELSE OptionsGetItem(data, dco, "serialize_with")[1]

\* Line 182 asking for mode once whatever the caller requested.
RequestedModeOnce(data, dco) == "once"

\* use_cassette, line 182: the mode handed to can_be_loaded, kwargs['record'].
RequestedMode(data, dco) == OptionsGetItem(data, dco, "record")[1]

\* Betamax.use_cassette
use_cassette(name, kwargs) ==
    LET dco == default_cassette_options
        data == Update(validate(kwargs),
                       [k \in {"cassette_library_dir"} |-> CASSETTE_LIBRARY_DIR])
        serialize == Serializer(data, dco)
        can_load == can_be_loaded(files, CASSETTE_LIBRARY_DIR, name, serialize,
                                  RequestedMode(data, dco))
    IN  /\ IF validate_raises(kwargs) # {}
           THEN /\ \E exception \in validate_raises(kwargs) :
                        last' = Used(name, exception, kwargs)
                /\ UNCHANGED <<cassette, cassette_name, options>>
           ELSE IF can_load
           THEN load_cassette(name, serialize, data, kwargs)
           ELSE /\ last' = Used(name, "ValueError", kwargs)
                /\ UNCHANGED <<cassette, cassette_name, options>>
        /\ UNCHANGED <<files, now, default_cassette_options, session_adapters,
                       http_adapters, calls>>

\* session.send(request): the session hands the request to the adapter
\* mounted for its URL, which is the Betamax adapter between start and stop.
session_send(request) ==
    /\ find_adapter(session_adapters, request.url) = Some(BetamaxAdapterId)
    /\ send(request)

\* A day passes.
Tick ==
    /\ now < MaxTime
    /\ now' = now + 1
    /\ last' = Did("tick", "ok")
    /\ UNCHANGED <<files, default_cassette_options, session_adapters,
                   http_adapters, cassette, cassette_name, options, calls>>

(* ---------------------------- specification --------------------------- *)

\* A cassette file an earlier process left behind: one interaction, recorded
\* on day 0 without placeholders.
RecordedEarlier ==
    << [request |-> [method |-> "GET", url |-> UrlHttp],
        response |-> [status |-> 200, headers |-> <<"s">>,
                      body |-> <<"s", "o">>],
        recorded_at |-> 0] >>

\* The state after Betamax(session) on a fresh session; the cassette "a" is
\* not on disk, or is there from an earlier process.
Init ==
    /\ files \in
        { EmptyDict,
          [p \in {storage_path(CASSETTE_LIBRARY_DIR, "a", Json)} |->
                RecordedEarlier] }
    /\ now = 0
    /\ default_cassette_options = InitialDefaultCassetteOptions
    /\ session_adapters = FreshSessionAdapters
    /\ http_adapters = FreshSessionAdapters
    /\ cassette = None
    /\ cassette_name = None
    /\ options = EmptyDict
    /\ calls = 0
    /\ last = Did("__init__", "ok")

\* The keyword arguments given to use_cassette: record modes, the matcher
\* list and the placeholders.
KeywordArguments ==
    << EmptyDict,
       [k \in {"record"} |-> PyStr("all")],
       [k \in {"record"} |-> PyStr("new_episodes")],
       [k \in {"record"} |-> PyStr("none")],
       [k \in {"record"} |-> PyStr("once")],
       [k \in {"match_requests_on", "placeholders"} |->
            IF k = "placeholders" THEN PyDicts(<<Placeholder>>)
            ELSE PyNames(<<"method">>)] >>

\* Recording and replaying: sessions that never configure a re-record
\* interval, so that the clock does not matter.
Next ==
    \/ BetamaxInit(EmptyDict)
    \/ start
    \/ stop
    \/ \E name \in CassetteNames, i \in 1..Len(KeywordArguments) :
            use_cassette(name, KeywordArguments[i])
    \/ \E request \in Requests : session_send(request)

Spec == Init /\ [][Next]_vars

\* Keyword arguments for sessions that re-record: an interval of one day,
\* given or not, in the default mode, new_episodes or none.
IntervalKeywordArguments ==
    << EmptyDict,
       [k \in {"re_record_interval"} |-> PyInt(1)],
       [k \in {"record"} |-> PyStr("new_episodes")],
       [k \in {"record"} |-> PyStr("none")] >>

\* The default_cassette_options arguments given to Betamax(...).
DefaultOptionArguments ==
    << EmptyDict,
       [k \in {"re_record_interval"} |-> Some(1)],
       [k \in {"re_record_interval"} |-> None] >>

\* Re-recording: intervals per use and by default, and passing days.
NextInterval ==
    \/ \E i \in 1..Len(DefaultOptionArguments) :
            BetamaxInit(DefaultOptionArguments[i])
    \/ start
    \/ stop
    \/ \E name \in CassetteNames, i \in 1..Len(IntervalKeywordArguments) :
            use_cassette(name, IntervalKeywordArguments[i])
    \/ \E request \in Requests : session_send(request)
    \/ Tick

SpecInterval == Init /\ [][NextInterval]_vars

\* Keyword arguments of every shape a caller may write: a mode that does not
\* exist, a key that does not exist, a matcher list that is a number or a
\* bare str, placeholders that are names instead of mappings or mappings
\* with the wrong keys, an interval that is a timedelta, None or not
\* positive, a serializer that is not registered, and valid entries beside
\* invalid ones.
RawKeywordArguments ==
    << EmptyDict,
       [k \in {"record"} |-> PyStr("bogus")],
       [k \in {"record_mode"} |-> PyStr("all")],
       [k \in {"match_requests_on"} |-> PyInt(5)],
       [k \in {"match_requests_on"} |-> PyStr(<<"u", "r", "i">>)],
       [k \in {"placeholders"} |-> PyNames(<<"s">>)],
       [k \in {"placeholders"} |->
            PyDicts(<< [placeholder |-> <<"T">>, value |-> <<"s">>] >>)],
       [k \in {"re_record_interval"} |-> PyTimedelta(1)],
       [k \in {"re_record_interval"} |-> PyNone],
       [k \in {"re_record_interval", "record"} |->
            IF k = "record" THEN PyStr("new_episodes") ELSE PyInt(0)],
       [k \in {"serialize_with", "match_requests_on"} |->
            IF k = "serialize_with" THEN PyStr("yaml")
            ELSE PyNames(<<"method">>)] >>

\* The default_cassette_options arguments that change the default mode.
DefaultModeArguments ==
    << EmptyDict, [k \in {"record_mode"} |-> "none"] >>

\* Validation: callers that write their keyword arguments in every shape.
NextOptions ==
    \/ \E i \in 1..Len(DefaultModeArguments) :
            BetamaxInit(DefaultModeArguments[i])
    \/ start
    \/ stop
    \/ \E name \in CassetteNames, i \in 1..Len(RawKeywordArguments) :
            use_cassette(name, RawKeywordArguments[i])
    \/ \E request \in Requests : session_send(request)

SpecOptions == Init /\ [][NextOptions]_vars

\* Prefixes a caller mounts on the session besides the two it is born
\* with: "http://x", and "http://xT" whose last character is upper case.
PrefixHost == <<"http", "://", "x">>

PrefixPath == <<"http", "://", "x", "T">>

\* The URL "http://xT".
UrlPath == <<"http", "://", "x", "T">>

\* Sessions on which session.mount has been called before Betamax(session).
MountedSessions ==
    { Mount(FreshSessionAdapters, PrefixHost, "HostAdapter"),
      Mount(FreshSessionAdapters, PrefixPath, "PathAdapter"),
      Mount(Mount(FreshSessionAdapters, PrefixHost, "HostAdapter"),
            PrefixPath, "PathAdapter") }

\* The state after Betamax(session) on a session with further adapters.
InitMounted ==
    /\ files = EmptyDict
    /\ now = 0
    /\ default_cassette_options = InitialDefaultCassetteOptions
    /\ session_adapters \in MountedSessions
    /\ http_adapters = session_adapters
    /\ cassette = None
    /\ cassette_name = None
    /\ options = EmptyDict
    /\ calls = 0
    /\ last = Did("__init__", "ok")

\* The requests sent through a session with further adapters.
MountedRequests == Requests \cup {[method |-> "GET", url |-> UrlPath]}

\* The keyword arguments used on a session with further adapters.
MountedKeywordArguments ==
    << EmptyDict, [k \in {"record"} |-> PyStr("all")] >>

\* Transport selection: sessions with further adapters, recording.
NextMounted ==
    \/ BetamaxInit(EmptyDict)
    \/ start
    \/ stop
    \/ \E name \in CassetteNames, i \in 1..Len(MountedKeywordArguments) :
            use_cassette(name, MountedKeywordArguments[i])
    \/ \E request \in MountedRequests : session_send(request)

SpecMounted == InitMounted /\ [][NextMounted]_vars

(* ------------------------------- claims -------------------------------- *)

\* Some stored interaction of c matches the request under c's matchers.
HasMatch(c, request) ==
    \E i \in 1..Len(c.interactions) : Matches(c, request, i)

\* The step just taken was a send() on a loaded cassette.
SendOnCassette == last'.op = "send" /\ cassette # None

\* The step changed neither the cassette nor the count of live calls, and
\* reports no call on an original adapter.
NothingRecorded ==
    /\ cassette' = cassette
    /\ calls' = calls
    /\ last'.called = <<>>
    /\ last'.live = None

\* send() returned the response of the stored interaction at last'.index,
\* which matches the request, after reverse placeholder substitution.
ReplayedFromMatch(c, request) ==
    /\ last'.outcome = "replayed"
    /\ last'.index \in 1..Len(c.interactions)
    /\ Matches(c, request, last'.index)
    /\ LET stored == c.interactions[last'.index].response
           got == last'.response[1]
       IN  /\ last'.response # None
           /\ got.status = stored.status
           /\ got.headers = Unredact(stored.headers, c.placeholders)
           /\ got.body = Unredact(stored.body, c.placeholders)
           /\ c.placeholders = <<>> => got = stored

\* C1: on a cassette in mode new_episodes, once or none, a send() whose
\* request matches a stored interaction returns the response of a matching
\* stored interaction (status, headers and body, after reverse placeholder
\* substitution), calls no original adapter and appends nothing.
C1_ReplayOnHit ==
    [][ (/\ SendOnCassette
         /\ cassette[1].record_mode \in {"new_episodes", "once", "none"}
         /\ HasMatch(cassette[1], last'.request[1]))
        => (/\ ReplayedFromMatch(cassette[1], last'.request[1])
            /\ NothingRecorded) ]_vars

\* C1 happens: a replay from a cassette in new_episodes mode that holds
\* redacted content.
C1_Witness ==
    /\ last.op = "send"
    /\ last.outcome = "replayed"
    /\ cassette # None
    /\ cassette[1].record_mode = "new_episodes"
    /\ cassette[1].placeholders # <<>>
    /\ cassette[1].interactions[last.index].response.body # last.response[1].body

\* send() made exactly one live call, appended exactly one interaction built
\* from the live response of that call, and returned the response built from
\* that last element.
RecordedOne(c, request) ==
    /\ last'.outcome = "recorded"
    /\ Len(last'.called) = 1
    /\ \E i \in 1..Len(http_adapters) :
            last'.called[1] = http_adapters[i].adapter
    /\ calls' = calls + 1
    /\ cassette' # None
    /\ LET after == cassette'[1].interactions
           new == after[Len(after)]
       IN  /\ Len(after) = Len(c.interactions) + 1
           /\ SubSeq(after, 1, Len(c.interactions)) = c.interactions
           /\ last'.live # None
           /\ last'.live[1] \in LiveResponses
           /\ new.request = request
           /\ new.response.status = last'.live[1].status
           /\ new.response.headers = Redact(last'.live[1].headers, c.placeholders)
           /\ new.response.body = Redact(last'.live[1].body, c.placeholders)
           /\ last'.index = Len(after)
           /\ last'.response = Some(as_response(c, new))

\* C2: a send() that finds no matching interaction on a cassette whose mode
\* permits recording makes exactly one call on an original adapter, appends
\* exactly one interaction, and returns the response built from that newly
\* appended last element, that is from the live response of this call.
C2_RecordOnMiss ==
    [][ (/\ SendOnCassette
         /\ find_match(cassette[1], last'.request[1]) = None
         /\ is_recording(cassette[1]))
        => RecordedOne(cassette[1], last'.request[1]) ]_vars

\* C2 happens: a recording onto a cassette that already held another
\* interaction, with a live response different from the stored one.
C2_Witness ==
    /\ last.op = "send"
    /\ last.outcome = "recorded"
    /\ cassette # None
    /\ Len(cassette[1].interactions) = 2
    /\ cassette[1].interactions[1].response # cassette[1].interactions[2].response

\* C3: a send() that finds no matching interaction on a cassette whose mode
\* does not permit recording (an empty cassette included) raises BetamaxError
\* with a message naming the request URL, the cassette's file path, its
\* record mode and its matcher list; it calls no original adapter and leaves
\* the interactions as they were.
C3_UnhandledOnMiss ==
    [][ (/\ SendOnCassette
         /\ find_match(cassette[1], last'.request[1]) = None
         /\ ~is_recording(cassette[1]))
        => (/\ last'.outcome = UnhandledError
            /\ last'.response = None
            /\ last'.message # None
            /\ last'.message[1].url = last'.request[1].url
            /\ last'.message[1].cassette_file_path =
                    storage_path(CASSETTE_LIBRARY_DIR, cassette_name[1], Json)
            /\ last'.message[1].cassette_record_mode = cassette[1].record_mode
            /\ last'.message[1].cassette_match_options =
                    cassette[1].match_options
            /\ NothingRecorded) ]_vars

\* C3 happens: an unhandled request on an empty cassette that does not
\* record.
C3_Witness ==
    /\ last.op = "send"
    /\ last.outcome = UnhandledError
    /\ cassette # None
    /\ cassette[1].interactions = <<>>
    /\ cassette[1].record_mode = "none"

\* C4: whenever the adapter holds no cassette, send() raises BetamaxError
\* 'No cassette was specified or found.', calls no original adapter and
\* changes nothing; and the adapter holds no cassette after stop().
C4_NoCassette ==
    [][ /\ (last'.op = "send" /\ cassette = None)
            => (/\ last'.outcome = NoCassetteError
                /\ last'.response = None
                /\ NothingRecorded
                /\ UNCHANGED <<files, now, default_cassette_options,
                               session_adapters, http_adapters, cassette_name,
                               options>>)
        /\ last'.op = "stop" => cassette' = None ]_vars

\* C4 happens: the error is raised after a cassette was loaded and ejected.
C4_Witness ==
    /\ last.op = "send"
    /\ last.outcome = NoCassetteError
    /\ cassette_name # None

\* C5: in none mode every send() calls no original adapter and appends
\* nothing; it replays when a stored interaction matches and fails when none
\* does.
C5_NoneMode ==
    [][ (SendOnCassette /\ cassette[1].record_mode = "none")
        => (/\ NothingRecorded
            /\ cassette'[1].record_mode = "none"
            /\ IF HasMatch(cassette[1], last'.request[1])
               THEN ReplayedFromMatch(cassette[1], last'.request[1])
               ELSE last'.outcome = UnhandledError) ]_vars

\* C5 happens: in none mode, a request without a stored match has failed.
C5_Witness ==
    /\ last.op = "send"
    /\ last.outcome = UnhandledError
    /\ cassette # None
    /\ cassette[1].record_mode = "none"
    /\ cassette[1].interactions # <<>>
    /\ ~HasMatch(cassette[1], last.request[1])

\* C6: in all mode every send() makes one live call and appends one
\* interaction, so N identical requests against a cassette holding a
\* matching interaction add N interactions; the response comes from the
\* newly appended element, never from a stored one.
C6_AllMode ==
    [][ (SendOnCassette /\ cassette[1].record_mode = "all")
        => (/\ RecordedOne(cassette[1], last'.request[1])
            /\ last'.index > Len(cassette[1].interactions)) ]_vars

\* C6 happens: two identical requests were recorded in all mode behind the
\* single matching interaction the cassette held.
C6_Witness ==
    /\ last.op = "send"
    /\ last.outcome = "recorded"
    /\ cassette # None
    /\ cassette[1].record_mode = "all"
    /\ Len(cassette[1].interactions) = 3
    /\ SubSeq(cassette[1].interactions, 1, 1) = RecordedEarlier
    /\ \A i \in 2..3 :
            cassette[1].interactions[i].request = RecordedEarlier[1].request
    /\ last.index = 3

\* The cassette's file holds at least one interaction.
FileHasContent(disk, path) == path \in DOMAIN disk /\ disk[path] # <<>>

\* The step just taken was a use_cassette() that loaded a cassette.
Loaded ==
    /\ last'.op = "use_cassette"
    /\ last'.outcome \in {"loaded", "loaded and cleared"}

\* C7: a cassette's permission to record in once mode is fixed when it is
\* loaded, from whether its file had content; send() never changes it nor
\* the record mode.  With content at load every miss fails and appends
\* nothing; without, every miss is recorded, also after earlier appends.
C7_OnceDecidedAtLoad ==
    [][ /\ Loaded =>
            cassette'[1].had_content =
                FileHasContent(files, cassette'[1].cassette_name)
        /\ SendOnCassette =>
            /\ cassette' # None
            /\ cassette'[1].record_mode = cassette[1].record_mode
            /\ cassette'[1].had_content = cassette[1].had_content
        /\ (/\ SendOnCassette
            /\ cassette[1].record_mode = "once"
            /\ ~HasMatch(cassette[1], last'.request[1]))
            => IF cassette[1].had_content
               THEN last'.outcome = UnhandledError /\ NothingRecorded
               ELSE RecordedOne(cassette[1], last'.request[1]) ]_vars

\* C7 happens: in once mode, on a cassette with no file at load, a second
\* miss was recorded after the first.
C7_Witness ==
    /\ last.op = "send"
    /\ last.outcome = "recorded"
    /\ cassette # None
    /\ cassette[1].record_mode = "once"
    /\ ~cassette[1].had_content
    /\ Len(cassette[1].interactions) = 2
    /\ cassette[1].interactions[1].request # cassette[1].interactions[2].request

\* C8: in new_episodes mode, or in once mode on a cassette that was empty at
\* load, sending again the request that was just recorded makes no further
\* live call and appends nothing: it returns the interaction the first
\* send() saved.
C8_ReplayAfterRecord ==
    [][ (/\ last.op = "send"
         /\ last.outcome = "recorded"
         /\ cassette # None
         /\ \/ cassette[1].record_mode = "new_episodes"
            \/ cassette[1].record_mode = "once" /\ ~cassette[1].had_content
         /\ last'.op = "send"
         /\ last'.request = last.request)
        => (/\ last'.outcome = "replayed"
            /\ last'.index = last.index
            /\ last'.index = Len(cassette[1].interactions)
            /\ last'.response = last.response
            /\ NothingRecorded) ]_vars

\* C8 happens: in once mode on a fresh cassette, the request just recorded
\* was sent again and replayed from the interaction saved last.
C8_Witness ==
    /\ last.op = "send"
    /\ last.outcome = "replayed"
    /\ calls = 1
    /\ cassette # None
    /\ cassette[1].record_mode = "once"
    /\ ~cassette[1].had_content
    /\ cassette[1].dirty
    /\ last.index = Len(cassette[1].interactions)

\* C9: in once mode on a cassette without a file, the recording send() does
\* not touch the disk; stop() writes the recorded interactions to the
\* cassette's file; a later run that loads the file in once mode replays a
\* matching request with no live call, the response being the persisted one.
C9_TwoRuns ==
    [][ /\ last'.op = "send" => files' = files
        /\ (/\ last'.op = "stop"
            /\ cassette # None
            /\ cassette[1].dirty)
            => (/\ cassette[1].cassette_name \in DOMAIN files'
                /\ files'[cassette[1].cassette_name] = cassette[1].interactions)
        /\ (/\ Loaded
            /\ last'.outcome = "loaded")
            => cassette'[1].interactions =
                    IF cassette'[1].cassette_name \in DOMAIN files
                    THEN files[cassette'[1].cassette_name] ELSE <<>>
        /\ (/\ SendOnCassette
            /\ cassette[1].record_mode = "once"
            /\ cassette[1].had_content
            /\ ~cassette[1].dirty
            /\ HasMatch(cassette[1], last'.request[1]))
            => (/\ ReplayedFromMatch(cassette[1], last'.request[1])
                /\ NothingRecorded
                /\ last'.response =
                    Some(as_response(cassette[1],
                        files[cassette[1].cassette_name][last'.index]))) ]_vars

\* C9 happens: a once-mode cassette loaded from a file that a run of this
\* behaviour wrote (its content is not the one left by an earlier process)
\* replays a request.
C9_Witness ==
    /\ last.op = "send"
    /\ last.outcome = "replayed"
    /\ cassette # None
    /\ cassette[1].record_mode = "once"
    /\ cassette[1].had_content
    /\ ~cassette[1].dirty
    /\ cassette[1].interactions # RecordedEarlier
    /\ Len(cassette[1].interactions) = 1
    /\ files[cassette[1].cassette_name] = cassette[1].interactions

\* The re-record interval configured for a use_cassette call: the valid
\* per-use override, else the process-wide default.
ConfiguredInterval(kwargs, dco) ==
    IF "re_record_interval" \in DOMAIN validate(kwargs)
    THEN validate(kwargs)["re_record_interval"]
    ELSE dco["re_record_interval"]

\* C10: load_cassette clears the interactions exactly when a re-record
\* interval is configured and the time since the cassette's earliest
\* recording strictly exceeds it.
C10_ClearedIffStale ==
    [][ Loaded =>
        LET path == cassette'[1].cassette_name
            stored == IF path \in DOMAIN files THEN files[path] ELSE <<>>
            interval == ConfiguredInterval(last'.given, default_cassette_options)
            stale == /\ interval # None
                     /\ interval[1] < Age([interactions |-> stored], now)
        IN  /\ stale => cassette'[1].interactions = <<>>
            /\ ~stale => cassette'[1].interactions = stored ]_vars

\* What load_cassette does hold to: with the interval read from the
\* adapter's merged options (this call's and earlier calls' explicit
\* entries), the cassette is cleared exactly when that interval is strictly
\* exceeded.
LoadClearsByAdapterOptions ==
    [][ Loaded =>
        LET path == cassette'[1].cassette_name
            stored == IF path \in DOMAIN files THEN files[path] ELSE <<>>
            interval == IF "re_record_interval" \in DOMAIN options'
                        THEN options'["re_record_interval"] ELSE None
            stale == /\ interval # None
                     /\ interval[1] < Age([interactions |-> stored], now)
        IN  /\ stale => cassette'[1].interactions = <<>>
            /\ ~stale => cassette'[1].interactions = stored ]_vars

\* The step just taken was a use_cassette() whose Options(kwargs) was
\* constructed, whatever came of the cassette.
Constructed ==
    /\ last'.op = "use_cassette"
    /\ last'.outcome \in {"loaded", "loaded and cleared", "ValueError"}

\* An entry of a raw mapping that validation must not keep.
Rejected(raw, k) == k \notin valid_options \/ ~is_valid(k, raw[k])

\* C11: after Options(raw) is constructed, every explicit entry has a
\* recognized key and a value that satisfies the key's validator; every
\* unknown key and every key with an invalid value is absent, and looking it
\* up returns the default (record 'bogus' yields 'once' with the defaults
\* untouched); a rejected entry never reaches the adapter's options, an
\* accepted one does.
C11_OptionsValidated ==
    [][ Constructed =>
        LET raw == last'.given
            data == validate(raw)
            dco == default_cassette_options
        IN  /\ DOMAIN data \subseteq DOMAIN raw
            /\ \A k \in DOMAIN data :
                    /\ k \in valid_options
                    /\ is_valid(k, raw[k])
                    /\ data[k] = Accepted(k, raw[k])
            /\ \A k \in DOMAIN raw :
                    Rejected(raw, k) =>
                        /\ k \notin DOMAIN data
                        /\ OptionsGetItem(data, dco, k)
                                = Get(OptionsDefaults(dco), k)
                        /\ Loaded => Get(options', k) = Get(options, k)
            /\ (/\ "record" \in DOMAIN raw
                /\ raw["record"] = PyStr("bogus")
                /\ dco = InitialDefaultCassetteOptions)
                => OptionsGetItem(data, dco, "record") = Some("once")
            /\ Loaded => \A k \in DOMAIN data : Get(options', k) = Some(data[k])
      ]_vars

\* C11 happens: use_cassette('a', record='bogus') loaded the cassette in the
\* default mode once and left no record entry on the adapter.
C11_Witness ==
    /\ last.op = "use_cassette"
    /\ last.outcome = "loaded"
    /\ last.given = [k \in {"record"} |-> PyStr("bogus")]
    /\ cassette # None
    /\ cassette[1].record_mode = "once"
    /\ "record" \notin DOMAIN options

\* C12: constructing and validating Options never raises, whatever the shape
\* of a value given for a recognized key: use_cassette either loads the
\* cassette or raises its own ValueError.
C12_NeverRaises ==
    last.op = "use_cassette"
        => last.outcome \in {"loaded", "loaded and cleared", "ValueError"}

\* The value in effect for an option of a use_cassette call: the valid
\* per-use override, else the process-wide default, else the static default.
InEffect(kwargs, dco, key) == OptionsGetItem(validate(kwargs), dco, key)[1]

\* The cassette a use_cassette step loaded carries the mode, matchers,
\* placeholders and body-bytes flag in effect for the call.
LoadedAsInEffect(kwargs, dco, c) ==
    /\ c.record_mode = InEffect(kwargs, dco, "record")
    /\ c.match_options = InEffect(kwargs, dco, "match_requests_on")
    /\ c.placeholders = InEffect(kwargs, dco, "placeholders")
    /\ c.preserve_exact_body_bytes
            = InEffect(kwargs, dco, "preserve_exact_body_bytes")

\* The cassette a use_cassette step loaded was cleared exactly when the
\* interval in effect for the call is strictly exceeded.
ClearedAsInEffect(kwargs, dco, c) ==
    LET stored == IF c.cassette_name \in DOMAIN files
                  THEN files[c.cassette_name] ELSE <<>>
        interval == InEffect(kwargs, dco, "re_record_interval")
        stale == /\ interval # None
                 /\ interval[1] < Age([interactions |-> stored], now)
    IN  c.interactions = IF stale THEN <<>> ELSE stored

\* C13: for the first cassette a Betamax object loads (no earlier call has
\* left anything on the adapter), every option in effect is the valid
\* per-use override, else the process-wide default, else the static
\* default; an interval given only through default_cassette_options clears
\* a stale cassette as a per-use interval would.
C13_Precedence ==
    [][ (Loaded /\ options = EmptyDict) =>
        /\ LoadedAsInEffect(last'.given, default_cassette_options, cassette'[1])
        /\ ClearedAsInEffect(last'.given, default_cassette_options, cassette'[1])
      ]_vars

\* What the first load does hold to: every option but the interval follows
\* the precedence.
FirstLoadAsInEffect ==
    [][ (Loaded /\ options = EmptyDict) =>
        LoadedAsInEffect(last'.given, default_cassette_options, cassette'[1])
      ]_vars

\* C14: a use_cassette call whose cassette cannot be loaded (no name, or no
\* file while the requested mode is none) raises ValueError, and then
\* nothing of the adapter changes: load_cassette has not run and the
\* cassette loaded before, or the absence of one, is as it was.  A call whose
\* cassette can be loaded loads it.
C14_ValueError ==
    [][ Constructed =>
        LET name == last'.name[1]
            mode == InEffect(last'.given, default_cassette_options, "record")
            path == storage_path(CASSETTE_LIBRARY_DIR, name, Json)
            loadable == name # "" /\ (path \in DOMAIN files \/ mode # "none")
        IN  /\ loadable <=> Loaded
            /\ ~loadable <=> last'.outcome = "ValueError"
            /\ last'.outcome = "ValueError" =>
                    UNCHANGED <<files, now, default_cassette_options,
                                session_adapters, http_adapters, cassette,
                                cassette_name, options, calls>>
      ]_vars

\* C14 happens: use_cassette('a', record='none') was refused for want of a
\* file while the adapter held a cassette with unsaved recordings, which it
\* still holds.
C14_Witness ==
    /\ last.op = "use_cassette"
    /\ last.outcome = "ValueError"
    /\ last.name = Some("a")
    /\ cassette # None
    /\ cassette[1].dirty
    /\ cassette[1].interactions # <<>>

\* A prefix-to-adapter mapping without its order.
AsMapping(adapters) == {adapters[i] : i \in 1..Len(adapters)}

\* The adapter a mapping holds for a prefix.
AdapterFor(adapters, prefix) ==
    {e.adapter : e \in {f \in AsMapping(adapters) : f.prefix = prefix}}

\* C15: start() makes the Betamax adapter the session's handler for every
\* prefix kept at construction; stop() leaves the session with exactly the
\* prefix-to-adapter mapping kept at construction and the Betamax adapter
\* without a cassette, whatever was loaded, sent and recorded in between.
C15_StartStopRestore ==
    [][ /\ last'.op = "start" =>
            \A e \in AsMapping(http_adapters) :
                AdapterFor(session_adapters', e.prefix) = {BetamaxAdapterId}
        /\ last'.op = "stop" =>
            /\ AsMapping(session_adapters') = AsMapping(http_adapters)
            /\ \A e \in AsMapping(http_adapters) :
                    AdapterFor(session_adapters', e.prefix) = {e.adapter}
            /\ cassette' = None
        /\ last'.op \in {"use_cassette", "send"} =>
            /\ session_adapters' = session_adapters
            /\ http_adapters' = http_adapters ]_vars

\* C15 happens: stop() has restored a session of four prefixes after a
\* request was recorded through the mounted Betamax adapter.
C15_Witness ==
    /\ last.op = "stop"
    /\ calls > 0
    /\ Len(http_adapters) = 4
    /\ AsMapping(session_adapters) = AsMapping(http_adapters)
    /\ cassette = None
    /\ files # EmptyDict

\* The adapters registered under the longest prefix of a URL.
LongestPrefixAdapters(adapters, url) ==
    LET hits == {e \in AsMapping(adapters) : StartsWith(url, e.prefix)}
    IN  {e.adapter :
            e \in {h \in hits : \A g \in hits : Len(g.prefix) <= Len(h.prefix)}}

\* C16: a recording send() makes its live call on the kept original adapter
\* whose prefix is the longest registered prefix of the request URL.
C16_LongestPrefix ==
    [][ (last'.op = "send" /\ last'.outcome = "recorded") =>
        \E a \in LongestPrefixAdapters(http_adapters, last'.request[1].url) :
            last'.called = <<a>> ]_vars

\* What send_and_record does hold to: the adapter called is the one under
\* the longest prefix of the URL in lower case, the prefixes taken as they
\* were registered.
RecordsThroughLongestOfLowered ==
    [][ (last'.op = "send" /\ last'.outcome = "recorded") =>
        \E a \in LongestPrefixAdapters(http_adapters,
                                       Lower(last'.request[1].url)) :
            last'.called = <<a>> ]_vars

\* C17: a send() never removes, changes or reorders the interactions the
\* loaded cassette holds: a recording send() extends the list by exactly one
\* element at the end, every other send() (a replay, a failure) leaves the
\* list as it was.
C17_AppendOnly ==
    [][ SendOnCassette =>
        /\ cassette' # None
        /\ LET before == cassette[1].interactions
               after == cassette'[1].interactions
           IN  IF last'.outcome = "recorded"
               THEN /\ Len(after) = Len(before) + 1
                    /\ \A i \in 1..Len(before) : after[i] = before[i]
               ELSE after = before ]_vars

\* C17 happens: a replay of the first of two interactions that were both
\* recorded since the cassette was loaded.
C17_Witness ==
    /\ last.op = "send"
    /\ last.outcome = "replayed"
    /\ last.index = 1
    /\ cassette # None
    /\ ~cassette[1].had_content
    /\ cassette[1].dirty
    /\ Len(cassette[1].interactions) = 2

\* Every matcher of the list returns true for the pair.
AllMatchersAgree(names, request, recorded) ==
    \A m \in 1..Len(names) : matcher(names[m], request, recorded)

\* The stored interactions of c that match the request under the matchers
\* the cassette was configured with.
MatchingPositions(c, request) ==
    {i \in 1..Len(c.interactions) :
        AllMatchersAgree(c.match_options, request, c.interactions[i].request)}

\* C18: the cassette is configured with the matcher list given to
\* use_cassette; where stored interactions are offered for replay (every
\* mode but all), a send() replays iff some stored interaction agrees with
\* the request under every configured matcher, and it replays the first
\* such interaction in storage order.
C18_FirstMatch ==
    [][ /\ (Loaded /\ "match_requests_on" \in DOMAIN validate(last'.given)) =>
            cassette'[1].match_options
                = validate(last'.given)["match_requests_on"]
        /\ (SendOnCassette /\ cassette[1].record_mode # "all") =>
            LET c == cassette[1]
                hits == MatchingPositions(c, last'.request[1])
            IN  /\ hits # {} <=> last'.outcome = "replayed"
                /\ hits # {} =>
                    /\ last'.index \in hits
                    /\ \A j \in hits : last'.index <= j
                    /\ last'.response
                        = Some(as_response(c, c.interactions[last'.index]))
      ]_vars

\* C18 happens: under the single matcher method two stored interactions
\* match a request, and the first one, recorded for another URL, is replayed.
C18_Witness ==
    /\ last.op = "send"
    /\ last.outcome = "replayed"
    /\ last.index = 1
    /\ cassette # None
    /\ cassette[1].match_options = <<"method">>
    /\ Cardinality(MatchingPositions(cassette[1], last.request[1])) = 2
    /\ cassette[1].interactions[1].request.url # last.request[1].url

\* The text holds the part somewhere.
Contains(text, part) ==
    \E i \in 1..(Len(text) - Len(part) + 1) :
        SubSeq(text, i, i + Len(part) - 1) = part

\* A live text was stored redacted and given back restored: the stored text
\* has the token for every occurrence of the literal and never the literal;
\* what is given back holds the literal again where the live text did, and
\* is the live text when that did not hold the token itself.
RoundTrip(live, stored, back, p) ==
    /\ stored = ReplaceAll(live, p.replace, p.placeholder)
    /\ ~Contains(stored, p.replace)
    /\ Contains(live, p.replace) =>
            Contains(stored, p.placeholder) /\ Contains(back, p.replace)
    /\ ~Contains(live, p.placeholder) => back = live

\* C19: a cassette is given the placeholders of its use_cassette call; with
\* a placeholder (token, literal) configured, a recording stores the response
\* headers and body with the token for every occurrence of the literal and
\* without the literal, stop() writes the interactions to the file as they
\* are stored, and a replay of a stored interaction gives the stored text
\* with the literal for every token.
C19_RedactionRoundTrip ==
    [][ /\ (Loaded /\ "placeholders" \in DOMAIN validate(last'.given)) =>
            cassette'[1].placeholders = validate(last'.given)["placeholders"]
        /\ (/\ SendOnCassette
            /\ last'.outcome = "recorded"
            /\ cassette[1].placeholders = <<Placeholder>>) =>
            LET after == cassette'[1].interactions
                new == after[Len(after)].response
                live == last'.live[1]
                back == last'.response[1]
            IN  /\ RoundTrip(live.body, new.body, back.body, Placeholder)
                /\ RoundTrip(live.headers, new.headers, back.headers,
                             Placeholder)
        /\ (last'.op = "stop" /\ cassette # None /\ cassette[1].dirty) =>
            files'[cassette[1].cassette_name] = cassette[1].interactions
        /\ (/\ SendOnCassette
            /\ last'.outcome = "replayed"
            /\ cassette[1].placeholders = <<Placeholder>>) =>
            LET stored == cassette[1].interactions[last'.index].response
                back == last'.response[1]
            IN  /\ back.body = ReplaceAll(stored.body, Placeholder.placeholder,
                                          Placeholder.replace)
                /\ back.headers
                    = ReplaceAll(stored.headers, Placeholder.placeholder,
                                 Placeholder.replace)
                /\ Contains(stored.body, Placeholder.placeholder) =>
                        Contains(back.body, Placeholder.replace)
      ]_vars

\* C19 happens: a cassette loaded from a file that holds the token and not
\* the literal replays a body that holds the literal.
C19_Witness ==
    /\ last.op = "send"
    /\ last.outcome = "replayed"
    /\ cassette # None
    /\ cassette[1].placeholders = <<Placeholder>>
    /\ cassette[1].had_content
    /\ ~cassette[1].dirty
    /\ LET path == cassette[1].cassette_name
           stored == files[path][last.index].response
       IN  /\ Contains(stored.body, Placeholder.placeholder)
           /\ ~Contains(stored.body, Placeholder.replace)
           /\ Contains(last.response[1].body, Placeholder.replace)
           /\ last.response[1].body = <<"s", "o">>

\* What Options(kwargs) of one call hands to load_cassette: the valid
\* overrides of this call and the library directory (line 171).
ThisCall(kwargs) ==
    Update(validate(kwargs),
           [k \in {"cassette_library_dir"} |-> CASSETTE_LIBRARY_DIR])

\* C20: the cassette a use_cassette call loads is the one its own valid
\* overrides and the defaults determine, that is the one the same call
\* loads on an adapter no earlier call has used; an override of an earlier
\* call has no effect on it.
C20_NoLeak ==
    [][ Loaded =>
        cassette'[1] = LoadedCassette(ThisCall(last'.given), last'.name[1],
                                      Json, default_cassette_options, now)
      ]_vars

\* The step flushed the cassette the adapter held: its interactions are in
\* its file.
Flushed(c) ==
    /\ c.cassette_name \in DOMAIN files'
    /\ files'[c.cassette_name] = c.interactions

\* C21: no cassette with unsaved changes leaves the adapter unflushed: when
\* stop() drops it, and when use_cassette loads another cassette in its
\* place, its interactions are written to its file, so that what was
\* recorded into it is not lost.
C21_EveryCassetteEjected ==
    [][ (/\ last'.op \in {"use_cassette", "stop"}
         /\ cassette # None
         /\ cassette[1].dirty
         /\ last'.op = "use_cassette" => Loaded)
        => Flushed(cassette[1]) ]_vars

\* What the adapter does hold to: stop() flushes the cassette it holds at
\* that moment.
StopFlushesHeldCassette ==
    [][ (last'.op = "stop" /\ cassette # None /\ cassette[1].dirty)
        => Flushed(cassette[1]) ]_vars

====
